---- MODULE Spec2Model ----
(***************************************************************************)
(* Model of arcade/experimental/defender.py: the Defender clone's update   *)
(* loop (player physics, bullets, explosion particles, bullet/enemy        *)
(* collisions, scrolling camera) and its key handlers.                     *)
(*                                                                         *)
(* Positions and speeds are the program's binary floating point numbers    *)
(* (IEEE 754 double, round to nearest even), held exactly: see FAdd.       *)
(* view_left and view_bottom are the integers int() leaves, and the enemy  *)
(* positions the integers random.randrange yields.                         *)
(***************************************************************************)
EXTENDS Integers, Sequences, FiniteSets

\* ---- binary floating point ----
\* The triple <<a, b, c>> stands for the number (a * 2^48 + b * 2^24 + c) / 2^56
\* with 0 <= b < 2^24 and 0 <= c < 2^24; a carries the sign.  Every float of
\* the program is a multiple of 2^-56: the integers and 0.5 are, 0.2 is
\* 0x33333333333334 / 2^56 and 0.08 is 0x147AE147AE147B / 2^56, and sums
\* and differences of such numbers, rounded to 53 bits, stay so.
Limb == 2^24

\* carry from c into b and from b into a
Norm(a, b, c) ==
    LET b0 == b + (c \div Limb)
    IN  <<a + (b0 \div Limb), b0 % Limb, c % Limb>>

\* float(n) of an integer n, and of n halves
F(n) == <<n * 256, 0, 0>>
Zero == F(0)

FNeg(x) == IF x[2] = 0 /\ x[3] = 0 THEN <<-x[1], 0, 0>> ELSE Norm(-x[1], -x[2], -x[3])
FAbs(x) == IF x[1] < 0 THEN FNeg(x) ELSE x

FLt(x, y) ==
    \/ x[1] < y[1]
    \/ x[1] = y[1] /\ x[2] < y[2]
    \/ x[1] = y[1] /\ x[2] = y[2] /\ x[3] < y[3]
FGt(x, y) == FLt(y, x)
FLe(x, y) == ~FLt(y, x)
FGe(x, y) == ~FLt(x, y)

\* the number of bits of n >= 32 beyond five: n has 5 + ExtraBits(n) bits
ExtraBits(n) == Cardinality({k \in 1..19 : n >= 2^(k + 4)})

\* a number x >= 0 rounded to 53 significant bits, ties to even.  x has
\* 48 bits and those of a; at most 19 low bits are dropped, all of them in c.
RoundMag(x) ==
    IF x[3] = 0 \/ x[1] < 32 THEN x
    ELSE LET s == ExtraBits(x[1])
             r == x[3] % (2^s)
             half == 2^(s - 1)
             up == r > half \/ (r = half /\ (x[3] \div (2^s)) % 2 = 1)
         IN  Norm(x[1], x[2], x[3] - r + (IF up THEN 2^s ELSE 0))

FRound(x) == IF x[1] < 0 THEN FNeg(RoundMag(FNeg(x))) ELSE RoundMag(x)

\* x + y and x - y as the float operations compute them
FAdd(x, y) ==
    IF x[3] + y[3] = 0 /\ x[2] + y[2] = 0 THEN <<x[1] + y[1], 0, 0>>
    ELSE FRound(Norm(x[1] + y[1], x[2] + y[2], x[3] + y[3]))
FSub(x, y) == FAdd(x, FNeg(y))

\* int(): truncation toward zero
IntTrunc(x) == IF x[1] < 0 THEN -(FNeg(x)[1] \div 256) ELSE x[1] \div 256

\* ---- module constants of defender.py ----
SCREEN_WIDTH == 1280
SCREEN_HEIGHT == 720
PLAYING_FIELD_WIDTH == 5000
PLAYING_FIELD_HEIGHT == 800
MINIMAP_HEIGHT == SCREEN_HEIGHT \div 4
VIEWPORT_MARGIN == SCREEN_WIDTH \div 2 - 50
TOP_VIEWPORT_MARGIN == 30
DEFAULT_BOTTOM_VIEWPORT == -10
MAX_HORIZONTAL_MOVEMENT_SPEED == 10
MAX_VERTICAL_MOVEMENT_SPEED == 5
\* the floats 0.5, 0.2 and 0.08
HORIZONTAL_ACCELERATION == <<128, 0, 0>>
VERTICAL_ACCELERATION == <<51, 3355443, 3355444>>
MOVEMENT_DRAG == <<20, 8053063, 11408507>>
BULLET_MAX_DISTANCE == (SCREEN_WIDTH * 3) \div 4

\* ---- sizes of the sprites ----
PlayerHalfW == 20
PlayerHalfH == 5
BulletW == 35
BulletH == 3
ParticleSize == 4
EnemySize == 20

PlayerStartX == 50
PlayerStartY == 50
NumEnemies == 20
ParticlesPerHit == 10
InitialAlpha == 255
FadeStep == 5
BulletMinSpeed == 12
BulletExtraSpeed == 10

\* ---- bounds of the exploration ----
\* the number of frames explored; the window delivers at most MaxKeyEvents
\* key events in a run, each before the first frame, before frame
\* SecondInputTick or before frame ThirdInputTick; the random generator
\* starts in one of the first NumSetups states of SetupTable
MaxTicks == 60
SecondInputTick == 8
ThirdInputTick == 20
MaxKeyEvents == 2
NumSetups == 11
InputTicks == {0, SecondInputTick, ThirdInputTick}
\* a longer run: key events before the first frame or before frame
\* LongSecondInputTick, the generator in one of the first LongNumSetups states
LongTicks == 520
LongSecondInputTick == 100
LongNumSetups == 2
LongInputTicks == {0, LongSecondInputTick}

Keys == {"UP", "DOWN", "LEFT", "RIGHT", "SPACE"}
ArrowKeys == {"UP", "DOWN", "LEFT", "RIGHT"}

VARIABLES
    up_pressed, down_pressed, left_pressed, right_pressed,  \* MyGame key latch
    center_x, center_y, change_x, change_y, face_right,     \* player_sprite
    view_left, view_bottom,                                 \* camera
    enemies,        \* enemy_sprite_list: sequence of [x, y]
    bullets,        \* bullet_sprite_list: sequence of sprites
    rolls,          \* random: the <<dy, dx>> pairs the generator yields after setup
    roll_pos,       \* random: the position of the next pair
    ticks,          \* history: number of on_update calls so far
    key_events,     \* history: number of key events so far
    event,          \* history: the handler that ran last
    hit_log         \* history: the enemy removals of the last on_update

vars == <<up_pressed, down_pressed, left_pressed, right_pressed,
          center_x, center_y, change_x, change_y, face_right,
          view_left, view_bottom, enemies, bullets, rolls, roll_pos,
          ticks, key_events, event, hit_log>>

latch == <<up_pressed, down_pressed, left_pressed, right_pressed>>
player == <<center_x, center_y, change_x, change_y, face_right>>

\* ---- Player ----
accelerate_up(cy) ==
    LET c == FAdd(cy, VERTICAL_ACCELERATION)
    IN  IF FGt(c, F(MAX_VERTICAL_MOVEMENT_SPEED))
        THEN F(MAX_VERTICAL_MOVEMENT_SPEED) ELSE c

accelerate_down(cy) ==
    LET c == FSub(cy, VERTICAL_ACCELERATION)
    IN  IF FLt(c, F(-MAX_VERTICAL_MOVEMENT_SPEED))
        THEN F(-MAX_VERTICAL_MOVEMENT_SPEED) ELSE c

\* mutant: the speed limit is not applied
accelerate_right_unclamped(cx) == FAdd(cx, HORIZONTAL_ACCELERATION)

accelerate_right(cx) ==
    LET c == FAdd(cx, HORIZONTAL_ACCELERATION)
    IN  IF FGt(c, F(MAX_HORIZONTAL_MOVEMENT_SPEED))
        THEN F(MAX_HORIZONTAL_MOVEMENT_SPEED) ELSE c

accelerate_left(cx) ==
    LET c == FSub(cx, HORIZONTAL_ACCELERATION)
    IN  IF FLt(c, F(-MAX_HORIZONTAL_MOVEMENT_SPEED))
        THEN F(-MAX_HORIZONTAL_MOVEMENT_SPEED) ELSE c

\* the three drag statements of Player.update, in order
Drag(c) ==
    LET c1 == IF FGt(c, Zero) THEN FSub(c, MOVEMENT_DRAG) ELSE c
        c2 == IF FLt(c1, Zero) THEN FAdd(c1, MOVEMENT_DRAG) ELSE c1
    IN  IF FLt(FAbs(c2), MOVEMENT_DRAG) THEN Zero ELSE c2

\* Sprite.left, right, bottom, top of the player: the hit box corner offsets
\* added to the centre
Left(x) == FAdd(x, F(-PlayerHalfW))
Right(x) == FAdd(x, F(PlayerHalfW))
Bottom(y) == FAdd(y, F(-PlayerHalfH))
Top(y) == FAdd(y, F(PlayerHalfH))

\* mutant: the right edge of the field is not checked
BoundX_leftOnly(x) ==
    IF FLt(Left(x), Zero) THEN FAdd(x, FSub(Zero, Left(x))) ELSE x

\* "Check bounds": left/right, then bottom/top.  Setting an edge moves the
\* centre by the difference between the new and the old edge.
BoundX(x) ==
    IF FLt(Left(x), Zero) THEN FAdd(x, FSub(Zero, Left(x)))
    ELSE IF FGt(Right(x), F(PLAYING_FIELD_WIDTH - 1))
         THEN FAdd(x, FSub(F(PLAYING_FIELD_WIDTH - 1), Right(x)))
         ELSE x

BoundY(y) ==
    IF FLt(Bottom(y), Zero) THEN FAdd(y, FSub(Zero, Bottom(y)))
    ELSE IF FGt(Top(y), F(SCREEN_HEIGHT - 1))
         THEN FAdd(y, FSub(F(SCREEN_HEIGHT - 1), Top(y)))
         ELSE y

\* mutant: the up key is not read
VerticalInput_upUnlessDown(up, down) == IF ~down THEN "up" ELSE "down"

\* which accelerate_* call on_update makes for each axis
VerticalInput(up, down) ==
    IF up /\ ~down THEN "up" ELSE IF down /\ ~up THEN "down" ELSE "none"

HorizontalInput(left, right) ==
    IF left /\ ~right THEN "left" ELSE IF right /\ ~left THEN "right" ELSE "none"

\* ---- sprites of bullet_sprite_list ----
\* kind is the class of the sprite: "SpriteSolidColor" (what the fire key
\* creates), "Bullet" or "Particle".  refs is the number of entries of
\* the list that hold the sprite (append is called once per roll of the
\* particle's velocity, so a particle can be held more than once; the entries
\* of one sprite are adjacent).  travel and born are history fields: the
\* horizontal distance covered so far, and the number of the frame in which
\* the sprite was created (0: before the first frame).
NewSprite(k, px, py, vx, vy, t) ==
    [kind |-> k, x |-> px, y |-> py, cx |-> vx, cy |-> vy,
     alpha |-> InitialAlpha, distance |-> Zero, refs |-> 1, travel |-> Zero, born |-> t]

Moved(s) ==
    [s EXCEPT !.x = FAdd(s.x, s.cx), !.y = FAdd(s.y, s.cy),
              !.travel = FAdd(s.travel, FAbs(s.cx))]

\* arcade.Sprite.update: move by the velocity
Sprite_update(s) == [sprite |-> Moved(s), removed |-> FALSE]

\* Bullet.update
Bullet_update(s) ==
    LET m == [Moved(s) EXCEPT !.distance = FAdd(s.distance, s.cx)]
    IN  [sprite |-> m, removed |-> FGt(m.distance, F(BULLET_MAX_DISTANCE))]

\* Particle.update
Particle_update(s) ==
    LET m == [Moved(s) EXCEPT !.alpha = s.alpha - FadeStep]
    IN  [sprite |-> m, removed |-> m.alpha <= 0]

update(s) ==
    CASE s.kind = "Bullet" -> Bullet_update(s)
      [] s.kind = "Particle" -> Particle_update(s)
      [] OTHER -> Sprite_update(s)

\* SpriteList.update calls update() on every entry: a sprite held n times is
\* updated n times, unless an earlier one of these calls removed it
RECURSIVE UpdateTimes(_, _)
UpdateTimes(s, n) ==
    IF n = 0 THEN [sprite |-> s, removed |-> FALSE]
    ELSE LET r == update(s)
         IN  IF r.removed THEN r ELSE UpdateTimes(r.sprite, n - 1)

\* the entries lo..hi of the list after their update() calls, in list order
RECURSIVE UpdateRange(_, _, _)
UpdateRange(list, lo, hi) ==
    IF lo > hi THEN <<>>
    ELSE IF lo = hi
         THEN LET r == UpdateTimes(list[lo], list[lo].refs)
              IN  IF r.removed THEN <<>> ELSE <<r.sprite>>
         ELSE UpdateRange(list, lo, (lo + hi) \div 2)
                  \o UpdateRange(list, (lo + hi) \div 2 + 1, hi)

SpriteList_update(list) == UpdateRange(list, 1, Len(list))

RECURSIVE SumRefs(_, _)
SumRefs(list, i) == IF i > Len(list) THEN 0 ELSE list[i].refs + SumRefs(list, i + 1)

\* len(bullet_sprite_list): the number of entries
Entries(list) == SumRefs(list, 1)

\* ---- collisions ----
Width(s) == IF s.kind = "Particle" THEN ParticleSize ELSE BulletW
Height(s) == IF s.kind = "Particle" THEN ParticleSize ELSE BulletH

\* the float x lies above, or below, the number of n halves
AboveHalves(x, n) == x[1] > 128 * n \/ (x[1] = 128 * n /\ (x[2] # 0 \/ x[3] # 0))
BelowHalves(x, n) == x[1] < 128 * n

\* the bounding boxes of sprite s and enemy e overlap: the centres are less
\* than half the sum of the sizes apart on both axes (compared in halves)
Overlap(s, e) ==
    /\ AboveHalves(s.x, 2 * e.x - Width(s) - EnemySize)
    /\ BelowHalves(s.x, 2 * e.x + Width(s) + EnemySize)
    /\ AboveHalves(s.y, 2 * e.y - Height(s) - EnemySize)
    /\ BelowHalves(s.y, 2 * e.y + Height(s) + EnemySize)

\* arcade.check_for_collision_with_list: the (indices of the) enemies hit
check_for_collision_with_list(s, es) == {i \in 1..Len(es) : Overlap(s, es[i])}

\* random.randrange(-2, 3), twice: the stream is the sequence of <<dy, dx>>
\* pairs that the generator yields, read cyclically
RollAt(stream, pos) == stream[((pos - 1) % Len(stream)) + 1]
NextPos(stream, pos) == (pos % Len(stream)) + 1

\* the while loop of one particle: roll until the velocity is not (0, 0);
\* every pass also appends the particle to the list
RECURSIVE RollParticle(_, _, _)
RollParticle(stream, pos, appended) ==
    LET r == RollAt(stream, pos)
    IN  IF r[1] = 0 /\ r[2] = 0
        THEN RollParticle(stream, NextPos(stream, pos), appended + 1)
        ELSE [cy |-> F(r[1]), cx |-> F(r[2]),
              pos |-> NextPos(stream, pos), refs |-> appended + 1]

\* for i in range(10): the particles of one removed enemy
RECURSIVE SpawnParticles(_, _, _, _, _, _)
SpawnParticles(i, e, list, stream, pos, t) ==
    IF i > ParticlesPerHit THEN [list |-> list, pos |-> pos]
    ELSE LET r == RollParticle(stream, pos, 0)
             p == [NewSprite("Particle", F(e.x), F(e.y), r.cx, r.cy, t)
                       EXCEPT !.refs = r.refs]
         IN  SpawnParticles(i + 1, e, Append(list, p), stream, r.pos, t)

\* mutant: only the first enemy of the hit list is removed
HitEnemies_firstOnly(hit) ==
    IF hit = {} THEN {} ELSE {CHOOSE i \in hit : \A j \in hit : i <= j}

\* for enemy in enemy_hit_list: the enemies that are removed
HitEnemies(hit) == hit

\* the body of "for enemy in enemy_hit_list", for the hit enemies in list order
RECURSIVE Explode(_, _, _, _, _, _, _)
Explode(i, es, hit, list, stream, pos, t) ==
    IF i > Len(es) THEN [list |-> list, pos |-> pos]
    ELSE IF i \in hit
         THEN LET r == SpawnParticles(1, es[i], list, stream, pos, t)
              IN  Explode(i + 1, es, hit, r.list, stream, r.pos, t)
         ELSE Explode(i + 1, es, hit, list, stream, pos, t)

RECURSIVE LogHits(_, _, _, _, _)
LogHits(i, es, hit, s, n) ==
    IF i > Len(es) THEN <<>>
    ELSE IF i \in hit
         THEN <<[by |-> s.kind, idx |-> n, x |-> es[i].x, y |-> es[i].y]>>
              \o LogHits(i + 1, es, hit, s, n)
         ELSE LogHits(i + 1, es, hit, s, n)

RECURSIVE Without(_, _, _)
Without(es, hit, i) ==
    IF i > Len(es) THEN <<>>
    ELSE IF i \in hit THEN Without(es, hit, i + 1)
         ELSE <<es[i]>> \o Without(es, hit, i + 1)

\* for bullet in self.bullet_sprite_list: the loop runs over the list
\* as it grows, so it also visits the particles appended in this frame.  A
\* sprite held by several adjacent entries is visited once here; its further
\* visits find no enemy left to hit.
RECURSIVE CollideFrom(_, _, _, _, _, _, _)
CollideFrom(n, list, es, stream, pos, log, t) ==
    IF n > Len(list) THEN [list |-> list, enemies |-> es, log |-> log, pos |-> pos]
    ELSE LET hit == HitEnemies(check_for_collision_with_list(list[n], es))
         IN  IF hit = {}
             THEN CollideFrom(n + 1, list, es, stream, pos, log, t)
             ELSE LET r == Explode(1, es, hit, list, stream, pos, t)
                  IN  CollideFrom(n + 1, r.list, Without(es, hit, 1), stream, r.pos,
                                  log \o LogHits(1, es, hit, list[n], n), t)

\* no sprite of the list overlaps an enemy.  Only an enemy whose centre is
\* within Reach pixel columns of the column of a sprite's centre can overlap
\* a sprite: the centres of overlapping boxes are less than
\* (BulletW + EnemySize) / 2 apart.
Reach == (BulletW + EnemySize) \div 2 + 2

NoCollision(list, es) ==
    LET columns == {list[n].x[1] \div 256 : n \in 1..Len(list)}
        near == {i \in 1..Len(es) :
                    \E c \in columns : es[i].x - c < Reach /\ c - es[i].x < Reach}
    IN  \A i \in near : \A n \in 1..Len(list) : ~Overlap(list[n], es[i])

\* the whole loop; it changes nothing when no sprite of the list overlaps an
\* enemy
CollisionStep(list, es, stream, pos, t) ==
    IF NoCollision(list, es)
    THEN [list |-> list, enemies |-> es, log |-> <<>>, pos |-> pos]
    ELSE CollideFrom(1, list, es, stream, pos, <<>>, t)

\* ---- camera ----
\* "Scroll left": vl is view_left, left the player's left edge
ScrollLeft(vl, left) ==
    LET left_boundary == FAdd(vl, F(VIEWPORT_MARGIN))
    IN  IF FLt(left, left_boundary) THEN FSub(vl, FSub(left_boundary, left)) ELSE vl

\* mutant: the view never scrolls right
ScrollRight_never(vl, right) == vl

\* "Scroll right"
ScrollRight(vl, right) ==
    LET right_boundary == FSub(FAdd(vl, F(SCREEN_WIDTH)), F(VIEWPORT_MARGIN))
    IN  IF FGt(right, right_boundary) THEN FAdd(vl, FSub(right, right_boundary)) ELSE vl

\* "Scroll up": view_bottom restarts from the default in every frame
ScrollUp(top) ==
    LET vb == F(DEFAULT_BOTTOM_VIEWPORT)
        top_boundary == F(DEFAULT_BOTTOM_VIEWPORT + SCREEN_HEIGHT
                          - TOP_VIEWPORT_MARGIN - MINIMAP_HEIGHT)
    IN  IF FGt(top, top_boundary) THEN FAdd(vb, FSub(top, top_boundary)) ELSE vb

\* ---- the random inputs ----
Enemy(px, py) == [x |-> px, y |-> py]

\* enemies that lie away from the part of the field the player reaches
FarEnemies(n) == [i \in 1..n |-> Enemy(2000 + 100 * i, 500)]

\* 20 enemy positions random.randrange can place in setup, three of them
\* near the player's starting position
NearLayout ==
    <<Enemy(70, 50), Enemy(80, 50), Enemy(70, 62)>> \o FarEnemies(NumEnemies - 3)

\* sequences of <<dy, dx>> pairs random.randrange(-2, 3) can yield for the
\* particles; together they hold every one of the 25 pairs
NearRolls ==
    << << <<1, 0>>, <<0, 1>>, <<-1, 0>>, <<0, -1>>, <<2, 2>>,
          <<-2, -2>>, <<1, -1>>, <<-1, 1>>, <<2, 0>>, <<0, -2>> >>,
       << <<0, 0>>, <<1, 1>>, <<0, 0>>, <<0, 0>>, <<-2, 1>>, <<2, -1>> >>,
       << <<-2, -1>>, <<-2, 0>>, <<-2, 2>>, <<-1, -2>>, <<-1, -1>>, <<-1, 2>>,
          <<0, 2>>, <<1, -2>>, <<1, 2>>, <<2, -2>>, <<2, 1>> >> >>

NearSetups == [i \in 1..Len(NearRolls) |-> [layout |-> NearLayout, rolls |-> NearRolls[i]]]

\* the runs of random.seed(0), random.seed(1), ...: the enemy positions setup
\* gets (after the positions of the 80 stars), and the pairs the generator
\* yields next
SeedRuns == <<
    \* random.seed(0)
    [layout |->
        <<Enemy(3826, 40), Enemy(4886, 103), Enemy(3205, 204), Enemy(2131, 367),
          Enemy(3852, 583), Enemy(1387, 208), Enemy(475, 162), Enemy(1326, 350),
          Enemy(4337, 256), Enemy(960, 452), Enemy(1432, 13), Enemy(3863, 419),
          Enemy(4662, 520), Enemy(2551, 365), Enemy(3183, 256), Enemy(1256, 574),
          Enemy(101, 468), Enemy(647, 343), Enemy(374, 557), Enemy(2300, 138)>>,
     rolls |->
        << <<-1, 1>>, <<0, 2>>, <<0, 0>>, <<2, 2>>, <<-1, 0>>, <<1, 1>>,
           <<-2, -2>>, <<2, -1>>, <<0, -1>>, <<-1, -1>>, <<1, 1>>, <<2, 1>>,
           <<-2, 1>>, <<2, 1>>, <<-2, -1>>, <<1, -2>>, <<0, -1>>, <<1, 2>>,
           <<1, 2>>, <<2, -2>>, <<-2, 1>>, <<0, 0>>, <<1, -2>>, <<1, -1>>,
           <<2, -2>>, <<-1, -2>>, <<1, 1>>, <<0, -2>>, <<-1, -2>>, <<-2, 2>>,
           <<2, -2>>, <<-1, -2>>, <<2, -1>>, <<0, 0>>, <<-1, -2>>, <<1, 1>> >>],
    \* random.seed(1)
    [layout |->
        <<Enemy(3881, 116), Enemy(193, 319), Enemy(3166, 351), Enemy(3448, 192),
          Enemy(2116, 111), Enemy(2076, 522), Enemy(1712, 442), Enemy(170, 230),
          Enemy(146, 406), Enemy(1199, 36), Enemy(1312, 456), Enemy(4147, 436),
          Enemy(4462, 225), Enemy(4231, 461), Enemy(1828, 536), Enemy(251, 404),
          Enemy(4717, 328), Enemy(3492, 60), Enemy(2446, 128), Enemy(1737, 48)>>,
     rolls |->
        << <<0, -2>>, <<-2, 0>>, <<0, -1>>, <<1, 2>>, <<0, -1>>, <<-2, 2>>,
           <<-2, 2>>, <<-1, 2>>, <<1, -1>>, <<2, 2>>, <<-2, 1>>, <<-1, 0>>,
           <<-2, -1>>, <<2, 1>>, <<2, -1>>, <<1, -2>>, <<1, 0>>, <<2, 1>>,
           <<-2, 0>>, <<2, 1>>, <<0, -2>>, <<-1, -1>>, <<0, 2>>, <<-1, 0>>,
           <<1, -1>>, <<0, -2>>, <<1, 2>>, <<0, 2>>, <<1, 2>>, <<-1, -2>>,
           <<-2, -2>>, <<-1, -1>>, <<-1, 2>>, <<-1, 0>>, <<0, 2>>, <<2, 0>> >>],
    \* random.seed(2)
    [layout |->
        <<Enemy(2793, 265), Enemy(2144, 429), Enemy(147, 571), Enemy(1151, 58),
          Enemy(2072, 34), Enemy(1078, 165), Enemy(1398, 98), Enemy(3714, 237),
          Enemy(4163, 32), Enemy(2021, 238), Enemy(3642, 75), Enemy(2054, 82),
          Enemy(4843, 233), Enemy(2947, 262), Enemy(3465, 285), Enemy(4310, 4),
          Enemy(1237, 36), Enemy(3151, 418), Enemy(1312, 113), Enemy(4194, 89)>>,
     rolls |->
        << <<-1, -2>>, <<-2, -2>>, <<-1, -1>>, <<-2, -1>>, <<-2, 2>>, <<1, 1>>,
           <<0, 2>>, <<1, -1>>, <<-1, 1>>, <<1, 2>>, <<-2, 2>>, <<2, -2>>,
           <<1, 2>>, <<2, -1>>, <<-2, 1>>, <<0, -2>>, <<2, -2>>, <<2, 0>>,
           <<0, 0>>, <<0, -2>>, <<1, -2>>, <<-2, 0>>, <<-1, -2>>, <<1, -2>>,
           <<1, 1>>, <<1, -1>>, <<2, 2>>, <<-2, -2>>, <<0, -2>>, <<0, 0>>,
           <<-2, -1>>, <<1, -1>>, <<-2, 2>>, <<0, 1>>, <<1, -1>>, <<0, 1>> >>],
    \* random.seed(3)
    [layout |->
        <<Enemy(3024, 270), Enemy(2460, 386), Enemy(859, 27), Enemy(4663, 134),
          Enemy(2539, 512), Enemy(1823, 275), Enemy(1955, 335), Enemy(1535, 445),
          Enemy(794, 104), Enemy(4921, 329), Enemy(2734, 229), Enemy(3591, 173),
          Enemy(654, 344), Enemy(1786, 582), Enemy(3695, 277), Enemy(1843, 123),
          Enemy(277, 542), Enemy(1563, 322), Enemy(4709, 187), Enemy(2282, 348)>>,
     rolls |->
        << <<-2, 2>>, <<0, 2>>, <<-1, 1>>, <<0, 2>>, <<0, 1>>, <<0, 1>>,
           <<0, 1>>, <<2, 1>>, <<-2, 1>>, <<-1, -1>>, <<-2, 1>>, <<2, 2>>,
           <<1, 2>>, <<-1, -2>>, <<1, 2>>, <<0, 2>>, <<0, -1>>, <<-2, 2>>,
           <<0, -2>>, <<-1, -2>>, <<-2, 2>>, <<-1, 1>>, <<2, -2>>, <<-2, 1>>,
           <<-2, -1>>, <<2, 0>>, <<-1, -2>>, <<2, 2>>, <<1, -2>>, <<2, -2>>,
           <<0, -1>>, <<0, 2>>, <<1, -2>>, <<0, -1>>, <<-1, -2>>, <<2, -2>> >>],
    \* random.seed(4)
    [layout |->
        <<Enemy(3504, 220), Enemy(4084, 192), Enemy(259, 37), Enemy(2083, 259),
          Enemy(1985, 538), Enemy(1704, 237), Enemy(3417, 267), Enemy(1160, 332),
          Enemy(420, 322), Enemy(4631, 119), Enemy(4667, 412), Enemy(331, 506),
          Enemy(3174, 95), Enemy(3523, 215), Enemy(4688, 169), Enemy(2757, 303),
          Enemy(3860, 322), Enemy(3440, 540), Enemy(1763, 274), Enemy(2773, 401)>>,
     rolls |->
        << <<1, -2>>, <<0, -1>>, <<-2, 1>>, <<2, -1>>, <<0, -2>>, <<-1, 1>>,
           <<2, 1>>, <<1, 1>>, <<-1, -2>>, <<-1, -1>>, <<-2, 2>>, <<0, -2>>,
           <<1, 1>>, <<-1, 2>>, <<-2, -1>>, <<-1, 2>>, <<0, 2>>, <<1, 2>>,
           <<1, -2>>, <<-2, -2>>, <<2, -2>>, <<1, 2>>, <<0, 2>>, <<-1, -2>>,
           <<0, -2>>, <<2, -2>>, <<0, 0>>, <<-2, -2>>, <<2, 1>>, <<1, -1>>,
           <<0, 1>>, <<-1, 1>>, <<1, -2>>, <<-2, -2>>, <<2, 0>>, <<2, 1>> >>],
    \* random.seed(5)
    [layout |->
        <<Enemy(4356, 183), Enemy(4090, 346), Enemy(1475, 91), Enemy(4029, 278),
          Enemy(4220, 561), Enemy(4119, 369), Enemy(516, 364), Enemy(4812, 35),
          Enemy(2504, 372), Enemy(4581, 287), Enemy(3978, 271), Enemy(2407, 348),
          Enemy(1463, 594), Enemy(94, 485), Enemy(4480, 256), Enemy(2669, 280),
          Enemy(3792, 295), Enemy(4098, 365), Enemy(2849, 280), Enemy(2831, 418)>>,
     rolls |->
        << <<0, -1>>, <<1, 0>>, <<0, 2>>, <<-1, 2>>, <<-1, -1>>, <<0, 1>>,
           <<0, -2>>, <<1, -1>>, <<2, 2>>, <<2, 1>>, <<0, 2>>, <<2, 0>>,
           <<-2, -1>>, <<-1, 2>>, <<1, 2>>, <<-1, -1>>, <<-1, -2>>, <<1, -1>>,
           <<-1, -2>>, <<-1, -2>>, <<0, -1>>, <<1, -1>>, <<2, -2>>, <<1, 1>>,
           <<0, 1>>, <<2, -2>>, <<2, -1>>, <<-1, 0>>, <<-2, 0>>, <<1, 0>>,
           <<1, -2>>, <<2, 0>>, <<-2, 2>>, <<2, 0>>, <<-2, 0>>, <<2, 2>> >>],
    \* random.seed(6)
    [layout |->
        <<Enemy(4027, 77), Enemy(3841, 237), Enemy(820, 379), Enemy(2965, 148),
          Enemy(1993, 325), Enemy(1181, 38), Enemy(797, 107), Enemy(370, 489),
          Enemy(3790, 70), Enemy(252, 564), Enemy(1040, 85), Enemy(1319, 271),
          Enemy(3702, 511), Enemy(166, 140), Enemy(1546, 451), Enemy(3925, 450),
          Enemy(3662, 571), Enemy(2264, 488), Enemy(4745, 65), Enemy(2390, 372)>>,
     rolls |->
        << <<0, 0>>, <<-2, -2>>, <<2, 0>>, <<0, 0>>, <<1, 1>>, <<1, 0>>,
           <<-2, -2>>, <<-1, 2>>, <<-1, 2>>, <<-2, -1>>, <<0, 0>>, <<-2, -2>>,
           <<-1, 1>>, <<0, -2>>, <<-1, -2>>, <<1, 2>>, <<-1, 1>>, <<1, -2>>,
           <<-1, -2>>, <<0, 2>>, <<-2, -1>>, <<2, -1>>, <<-1, 0>>, <<-1, 2>>,
           <<2, 1>>, <<-1, -1>>, <<2, -1>>, <<1, -1>>, <<0, -1>>, <<2, 2>>,
           <<-2, 2>>, <<1, -1>>, <<0, 1>>, <<2, 1>>, <<-2, 1>>, <<2, 2>> >>],
    \* random.seed(7)
    [layout |->
        <<Enemy(3268, 403), Enemy(848, 493), Enemy(3280, 63), Enemy(1561, 68),
          Enemy(1710, 451), Enemy(1329, 112), Enemy(2785, 53), Enemy(838, 0),
          Enemy(4643, 154), Enemy(4395, 103), Enemy(2978, 26), Enemy(576, 212),
          Enemy(3082, 152), Enemy(2066, 355), Enemy(4933, 372), Enemy(3884, 125),
          Enemy(944, 499), Enemy(3817, 491), Enemy(3963, 319), Enemy(703, 147)>>,
     rolls |->
        << <<-2, 0>>, <<0, 1>>, <<-1, 2>>, <<-2, -1>>, <<2, 0>>, <<-1, 2>>,
           <<-2, 2>>, <<0, -2>>, <<0, 2>>, <<0, -1>>, <<0, -1>>, <<2, 2>>,
           <<2, 0>>, <<-1, 2>>, <<-1, -1>>, <<1, -1>>, <<-1, 2>>, <<1, 0>>,
           <<-2, -2>>, <<0, 1>>, <<0, -1>>, <<2, 0>>, <<1, 0>>, <<0, -2>>,
           <<-1, -2>>, <<-1, 1>>, <<-1, 0>>, <<-1, 1>>, <<2, 2>>, <<-2, 1>>,
           <<0, -2>>, <<-2, 1>>, <<-1, 1>>, <<-1, 1>>, <<0, -2>>, <<1, 1>> >>],
    \* random.seed(8)
    [layout |->
        <<Enemy(1265, 390), Enemy(999, 111), Enemy(4757, 463), Enemy(1035, 450),
          Enemy(4214, 92), Enemy(3860, 577), Enemy(3225, 369), Enemy(3730, 230),
          Enemy(417, 202), Enemy(400, 456), Enemy(912, 110), Enemy(1730, 4),
          Enemy(4920, 23), Enemy(2982, 442), Enemy(4324, 95), Enemy(4916, 514),
          Enemy(4661, 205), Enemy(4108, 234), Enemy(2655, 538), Enemy(3146, 532)>>,
     rolls |->
        << <<-1, -2>>, <<0, 2>>, <<0, -2>>, <<0, 1>>, <<-1, 0>>, <<-2, 2>>,
           <<1, 0>>, <<0, 2>>, <<0, 0>>, <<0, -2>>, <<-1, 1>>, <<0, 1>>,
           <<2, 0>>, <<-1, 0>>, <<1, 2>>, <<1, 2>>, <<0, 2>>, <<2, 0>>,
           <<1, -1>>, <<1, 2>>, <<2, -2>>, <<0, -1>>, <<-2, 1>>, <<0, 1>>,
           <<-2, 2>>, <<0, 0>>, <<0, 2>>, <<0, 0>>, <<1, -1>>, <<0, -1>>,
           <<-1, 2>>, <<1, -1>>, <<-1, 2>>, <<2, -1>>, <<0, 1>>, <<-2, -2>> >>],
    \* random.seed(9)
    [layout |->
        <<Enemy(1152, 492), Enemy(4603, 284), Enemy(1124, 88), Enemy(4554, 303),
          Enemy(966, 67), Enemy(3440, 462), Enemy(1167, 575), Enemy(3137, 173),
          Enemy(2245, 506), Enemy(2857, 101), Enemy(396, 283), Enemy(4332, 131),
          Enemy(1419, 86), Enemy(1328, 227), Enemy(106, 207), Enemy(1440, 485),
          Enemy(3741, 572), Enemy(4468, 397), Enemy(681, 177), Enemy(4494, 493)>>,
     rolls |->
        << <<2, 0>>, <<2, -2>>, <<-2, 2>>, <<2, 1>>, <<2, 0>>, <<2, 2>>,
           <<2, -2>>, <<2, 2>>, <<0, -2>>, <<-1, -1>>, <<-2, -2>>, <<1, 1>>,
           <<-2, 1>>, <<-2, 2>>, <<-2, 0>>, <<-1, 1>>, <<-1, 0>>, <<2, 2>>,
           <<1, -1>>, <<-2, 2>>, <<2, -2>>, <<2, -2>>, <<1, 1>>, <<2, -2>>,
           <<-2, -1>>, <<-2, 2>>, <<-1, -2>>, <<-2, -2>>, <<0, 2>>, <<1, 2>>,
           <<2, 1>>, <<-2, -2>>, <<0, -2>>, <<0, -2>>, <<1, 1>>, <<2, -1>> >>] >>

\* the states of the random generator, in the order the exploration takes
\* them up: the run of random.seed(0), the near layout with each of its
\* roll sequences, then the runs of the seeds from 1 on
SetupTable == <<SeedRuns[1]>> \o NearSetups \o Tail(SeedRuns)

\* the first n of them: what setup draws for the enemies, and what the
\* particles draw afterwards
Setups(n) == {SetupTable[i] : i \in 1..n}

\* ---- MyGame.__init__ and setup ----
InitWith(setups) ==
    /\ up_pressed = FALSE /\ down_pressed = FALSE
    /\ left_pressed = FALSE /\ right_pressed = FALSE
    /\ center_x = F(PlayerStartX) /\ center_y = F(PlayerStartY)
    /\ change_x = Zero /\ change_y = Zero
    /\ face_right = TRUE
    /\ view_left = 0 /\ view_bottom = 0
    /\ \E setup \in setups : enemies = setup.layout /\ rolls = setup.rolls
    /\ roll_pos = 1
    /\ bullets = <<>>
    /\ ticks = 0
    /\ key_events = 0
    /\ event = [handler |-> "setup", key |-> "NONE"]
    /\ hit_log = <<>>

\* ---- MyGame.on_key_press ----
\* mutant: no minimum speed
BulletSpeed_noMinimum(cx) == FAdd(FAbs(cx), F(BulletExtraSpeed))

\* the speed of a new bullet: max(12, abs(change_x) + 10)
BulletSpeed(cx) ==
    LET v == FAdd(FAbs(cx), F(BulletExtraSpeed))
    IN  IF FGt(v, F(BulletMinSpeed)) THEN v ELSE F(BulletMinSpeed)

\* the sprite the fire key creates
Fire ==
    NewSprite("SpriteSolidColor", center_x, center_y,
              IF face_right THEN BulletSpeed(change_x) ELSE FNeg(BulletSpeed(change_x)),
              Zero, ticks)

on_key_press(key) ==
    /\ up_pressed' = IF key = "UP" THEN TRUE ELSE up_pressed
    /\ down_pressed' = IF key = "DOWN" THEN TRUE ELSE down_pressed
    /\ left_pressed' = IF key = "LEFT" THEN TRUE ELSE left_pressed
    /\ right_pressed' = IF key = "RIGHT" THEN TRUE ELSE right_pressed
    /\ bullets' = IF key = "SPACE" THEN Append(bullets, Fire) ELSE bullets
    /\ key_events' = key_events + 1
    /\ event' = [handler |-> "on_key_press", key |-> key]
    /\ UNCHANGED <<player, view_left, view_bottom, enemies, rolls, roll_pos, ticks, hit_log>>

\* ---- MyGame.on_key_release ----
on_key_release(key) ==
    /\ up_pressed' = IF key = "UP" THEN FALSE ELSE up_pressed
    /\ down_pressed' = IF key = "DOWN" THEN FALSE ELSE down_pressed
    /\ left_pressed' = IF key = "LEFT" THEN FALSE ELSE left_pressed
    /\ right_pressed' = IF key = "RIGHT" THEN FALSE ELSE right_pressed
    /\ key_events' = key_events + 1
    /\ event' = [handler |-> "on_key_release", key |-> key]
    /\ UNCHANGED <<player, view_left, view_bottom, enemies, bullets, rolls, roll_pos,
                   ticks, hit_log>>

\* ---- MyGame.on_update ----
on_update ==
    LET vin == VerticalInput(up_pressed, down_pressed)
        hin == HorizontalInput(left_pressed, right_pressed)
        \* the accelerate_* calls
        cy1 == CASE vin = "up" -> accelerate_up(change_y)
                 [] vin = "down" -> accelerate_down(change_y)
                 [] OTHER -> change_y
        cx1 == CASE hin = "left" -> accelerate_left(change_x)
                 [] hin = "right" -> accelerate_right(change_x)
                 [] OTHER -> change_x
        \* player_list.update(): Player.update
        x1 == BoundX(FAdd(center_x, cx1))
        y1 == BoundY(FAdd(center_y, cy1))
        \* bullet_sprite_list.update(), then the collision loop
        moved == SpriteList_update(bullets)
        \* scrolling
        vl == ScrollRight(ScrollLeft(F(view_left), Left(x1)), Right(x1))
        vb == ScrollUp(Top(y1))
    IN  \E col \in {CollisionStep(moved, enemies, rolls, roll_pos, ticks + 1)} :
        /\ face_right' = CASE hin = "left" -> FALSE
                           [] hin = "right" -> TRUE
                           [] OTHER -> face_right
        /\ center_x' = x1
        /\ center_y' = y1
        /\ change_x' = Drag(cx1)
        /\ change_y' = Drag(cy1)
        /\ bullets' = col.list
        /\ enemies' = col.enemies
        /\ hit_log' = col.log
        /\ view_left' = IntTrunc(vl)
        /\ view_bottom' = IntTrunc(vb)
        /\ roll_pos' = col.pos
        /\ ticks' = ticks + 1
        /\ event' = [handler |-> "on_update", key |-> "NONE"]
        /\ UNCHANGED <<latch, rolls, key_events>>

\* ---- the window's event loop ----
Pressed(key) ==
    CASE key = "UP" -> up_pressed
      [] key = "DOWN" -> down_pressed
      [] key = "LEFT" -> left_pressed
      [] key = "RIGHT" -> right_pressed
      [] OTHER -> FALSE

\* a key event may be delivered now: before one of the frames of inputTicks,
\* and fewer than MaxKeyEvents key events so far
InputDue(inputTicks) ==
    /\ ticks \in inputTicks
    /\ key_events < MaxKeyEvents

KeyPress(inputTicks) ==
    \E key \in Keys :
        /\ InputDue(inputTicks)
        /\ ~Pressed(key)
        /\ on_key_press(key)

KeyRelease(inputTicks) ==
    \E key \in ArrowKeys :
        /\ InputDue(inputTicks)
        /\ Pressed(key)
        /\ on_key_release(key)

Tick(maxTicks) ==
    /\ ticks < maxTicks
    /\ on_update

Init == InitWith(Setups(NumSetups))

Next == KeyPress(InputTicks) \/ KeyRelease(InputTicks) \/ Tick(MaxTicks)

Spec == Init /\ [][Next]_vars

InitLong == InitWith(Setups(LongNumSetups))

NextLong == KeyPress(LongInputTicks) \/ KeyRelease(LongInputTicks) \/ Tick(LongTicks)

SpecLong == InitLong /\ [][NextLong]_vars

\* ======================= properties =======================
PlayerLeft == Left(center_x)
PlayerRight == Right(center_x)
PlayerBottom == Bottom(center_y)
PlayerTop == Top(center_y)

NoKeyLatched == ~up_pressed /\ ~down_pressed /\ ~left_pressed /\ ~right_pressed
AtRest == change_x = Zero /\ change_y = Zero
AfterUpdate == event.handler = "on_update"
Fired(s) == s.kind = "SpriteSolidColor"
IsParticle(s) == s.kind = "Particle"

\* C1: the player's velocity stays within the speed limits: |change_x| <= 10
\* and |change_y| <= 5 in every state (so after every on_update).
C1_VelocityWithinLimits ==
    /\ FLe(FAbs(change_x), F(MAX_HORIZONTAL_MOVEMENT_SPEED))
    /\ FLe(FAbs(change_y), F(MAX_VERTICAL_MOVEMENT_SPEED))

\* C1 witness: both limits have been applied: after an on_update the two
\* speeds are the limits less one frame of drag.
C1_BothLimitsApplied ==
    /\ AfterUpdate
    /\ change_x = FSub(F(MAX_HORIZONTAL_MOVEMENT_SPEED), MOVEMENT_DRAG)
    /\ change_y = FSub(F(MAX_VERTICAL_MOVEMENT_SPEED), MOVEMENT_DRAG)

\* C2: the player's bounding box lies inside the playing field in every state
\* (so after every on_update).
C2_PlayerInsideField ==
    /\ FGe(PlayerLeft, Zero)
    /\ FLe(PlayerRight, F(PLAYING_FIELD_WIDTH))
    /\ FGe(PlayerBottom, Zero)
    /\ FLe(PlayerTop, F(PLAYING_FIELD_HEIGHT))

\* C2 witness: the player is held at the right and the top bound while
\* still moving right and up.
C2_HeldAtRightAndTop ==
    /\ AfterUpdate
    /\ PlayerRight = F(PLAYING_FIELD_WIDTH - 1)
    /\ PlayerTop = F(SCREEN_HEIGHT - 1)
    /\ FGt(change_x, Zero) /\ FGt(change_y, Zero)

\* C3 (as claimed): a sprite created by the fire key is gone from the list
\* once it has travelled more than BULLET_MAX_DISTANCE.
C3_FiredBulletRemovedPastMaxDistance ==
    \A i \in 1..Len(bullets) :
        Fired(bullets[i]) => FLe(bullets[i].travel, F(BULLET_MAX_DISTANCE))

\* C4 (as claimed): a frame that starts without particles and removes enemies
\* removes one enemy per hit and adds exactly 10 list entries per removed
\* enemy, each a particle at a removed enemy's centre with a velocity that is
\* not (0, 0).
C4_TenEntriesPerRemovedEnemy ==
    [][ ( /\ ticks' = ticks + 1
          /\ \A i \in 1..Len(bullets) : ~IsParticle(bullets[i])
          /\ hit_log' # <<>> )
        => ( /\ Len(enemies') = Len(enemies) - Len(hit_log')
             /\ Entries(bullets') = Entries(bullets) + ParticlesPerHit * Len(hit_log')
             /\ \A i \in 1..Len(bullets') :
                    IsParticle(bullets'[i]) =>
                        /\ bullets'[i].cx # Zero \/ bullets'[i].cy # Zero
                        /\ \E h \in 1..Len(hit_log') :
                               /\ bullets'[i].x = F(hit_log'[h].x)
                               /\ bullets'[i].y = F(hit_log'[h].y) ) ]_vars

\* C5 (as claimed): after every on_update the player's left edge is at or right
\* of view_left + VIEWPORT_MARGIN and the right edge at or left of
\* view_left + SCREEN_WIDTH - VIEWPORT_MARGIN.
C5_PlayerWithinMargins ==
    ticks >= 1 =>
        /\ FGe(PlayerLeft, F(view_left + VIEWPORT_MARGIN))
        /\ FLe(PlayerRight, F(view_left + SCREEN_WIDTH - VIEWPORT_MARGIN))

\* C5 (amended): after every on_update the player's edges are within the
\* margins up to the truncation of view_left, that is by less than one pixel.
C5_PlayerWithinMarginsUpToOnePixel ==
    ticks >= 1 =>
        /\ FGt(PlayerLeft, F(view_left + VIEWPORT_MARGIN - 1))
        /\ FLt(PlayerRight, F(view_left + SCREEN_WIDTH - VIEWPORT_MARGIN + 1))

\* C5 witness: the view has scrolled right and the truncation has left the
\* player's right edge beyond the right margin.
C5_TruncatedAfterScrollRight ==
    /\ AfterUpdate
    /\ view_left > 0
    /\ FGt(PlayerRight, F(view_left + SCREEN_WIDTH - VIEWPORT_MARGIN))

\* C6 (as claimed): every particle of the list has lost exactly 5 of its fade
\* in each frame since the one that created it, and is in the list only while
\* its fade is positive.
C6_ParticleFadesByFivePerFrame ==
    \A i \in 1..Len(bullets) :
        IsParticle(bullets[i]) =>
            /\ bullets[i].alpha = InitialAlpha - FadeStep * (ticks - bullets[i].born)
            /\ bullets[i].alpha > 0

\* C7 (as claimed): with the player at rest and no key latched, at the far
\* left edge of the field or right after setup, an on_update changes neither
\* the player's position nor view_left and view_bottom.
C7_RestingFrameChangesNothing ==
    [][ ( /\ ticks' = ticks + 1
          /\ AtRest /\ NoKeyLatched
          /\ (PlayerLeft = Zero \/ ticks = 0) )
        => ( /\ center_x' = center_x /\ center_y' = center_y
             /\ view_left' = view_left /\ view_bottom' = view_bottom ) ]_vars

\* C7 (amended): with the player at rest and no key latched an on_update
\* leaves the player's position unchanged, and leaves view_left and
\* view_bottom unchanged unless it is the first on_update after setup.
C7_RestingFrameKeepsPositionAndLaterView ==
    [][ ( /\ ticks' = ticks + 1
          /\ AtRest /\ NoKeyLatched )
        => ( /\ center_x' = center_x /\ center_y' = center_y
             /\ ticks >= 1 => (view_left' = view_left /\ view_bottom' = view_bottom) ) ]_vars

\* C7 witness: the player has come to rest at the far left edge, with no key
\* latched, and a further on_update has run there.
C7_RestedAtLeftEdge ==
    /\ AfterUpdate /\ AtRest /\ NoKeyLatched
    /\ PlayerLeft = Zero
    /\ view_left = -VIEWPORT_MARGIN
    /\ ticks = MaxTicks

\* C8: the fire key appends exactly one sprite, at the player's centre, with
\* horizontal speed max(12, |change_x| + 10) in the facing direction and no
\* vertical speed; the player and the key latch are unchanged.
C8_FireAppendsOneBullet ==
    [][ (event'.handler = "on_key_press" /\ event'.key = "SPACE")
        => LET sum == FAdd(FAbs(change_x), F(10))
               speed == IF FGt(sum, F(12)) THEN sum ELSE F(12)
               b == bullets'[Len(bullets')]
           IN  /\ Len(bullets') = Len(bullets) + 1
               /\ SubSeq(bullets', 1, Len(bullets)) = bullets
               /\ Fired(b) /\ b.refs = 1
               /\ b.x = center_x /\ b.y = center_y
               /\ b.cx = IF face_right THEN speed ELSE FNeg(speed)
               /\ b.cy = Zero
               /\ UNCHANGED <<player, latch>> ]_vars

\* C8 witness: the fire key was pressed while the player moved right faster
\* than 2 pixels per frame, and the new sprite moves right at that speed
\* plus 10.
C8_FiredWhileMovingRight ==
    /\ event.handler = "on_key_press" /\ event.key = "SPACE"
    /\ FGt(change_x, F(2)) /\ face_right
    /\ bullets[Len(bullets)].cx = FAdd(change_x, F(10))

\* C9 (as claimed): in one on_update a sprite created by the fire key removes
\* at most one enemy.
C9_OneEnemyPerBulletPerFrame ==
    \A i, j \in 1..Len(hit_log) :
        (hit_log[i].by = "SpriteSolidColor" /\ hit_log[i].idx = hit_log[j].idx) => i = j

\* C9 (amended): in one on_update a sprite created by the fire key removes
\* every enemy its bounding box overlaps: after the on_update no enemy of the
\* list overlaps such a sprite.
C9_NoOverlappedEnemySurvives ==
    AfterUpdate =>
        \A i \in 1..Len(bullets) : \A j \in 1..Len(enemies) :
            Fired(bullets[i]) => ~Overlap(bullets[i], enemies[j])

\* C9 witness: one sprite created by the fire key has removed two enemies in
\* the same on_update.
C9_TwoEnemiesByOneBullet ==
    /\ AfterUpdate
    /\ \E i, j \in 1..Len(hit_log) :
           /\ i # j
           /\ hit_log[i].by = "SpriteSolidColor"
           /\ hit_log[i].idx = hit_log[j].idx

\* C10 (as claimed): every enemy removed by an on_update was removed by a
\* sprite created by the fire key, never by a particle.
C10_OnlyFiredBulletsRemoveEnemies ==
    \A i \in 1..Len(hit_log) : hit_log[i].by = "SpriteSolidColor"

====
